---- MODULE Spec2Model ----
(***************************************************************************)
(* The resumable bulk-ingestion pipeline of src/app.py: chunk_text, the     *)
(* progress ledger (indexing_progress.json), the document generator, the   *)
(* batch submitter, the shared IndexingStatus record and start_indexing.   *)
(*                                                                         *)
(* Four specifications share the variables:                                *)
(*   Spec       one process at a time running index_directory, with the    *)
(*              environment's failures and with process kills followed by  *)
(*              a new process over the same directory and ledger file;     *)
(*   SpecLive   one run of the background thread to its end, under weak    *)
(*              fairness of the thread's steps;                            *)
(*   SpecChunk  chunk_text applied to every bounded text and budget;       *)
(*   SpecConc   the background thread(s) and the status query, one field   *)
(*              access per step.                                           *)
(* A text is a sequence of characters; a file is a sequence of units, each *)
(* a character or a byte that is no valid UTF-8 (dropped by                *)
(* errors='ignore').                                                       *)
(***************************************************************************)
EXTENDS Integers, Sequences, FiniteSets, TLC

\* ---------------------------------------------------------------- bounds
\* start_indexing calls in one process (SpecConc)
MaxStarts == 2
\* files in the directory tree of SpecConc
ConcFiles == 1
\* files in the directory tree of Spec; os.walk visits them in the order 1..NumFiles
NumFiles == 3
\* processes started one after the other over the same directory
MaxRuns == 2
\* failures the environment injects in one behaviour: exceptions, responses
\* that report failed documents, kills
MaxFaults == 1
\* batch_size of index_directory (default 5), scaled down
BatchSize == 2
\* chunk_size of chunk_text as index_directory calls it (default 500000), scaled down
ChunkSize == 2
\* longest text and largest budget chunk_text is applied to in SpecChunk
MaxLen == 4
MaxBudget == 3
\* the scenario of a file of 1,200,000 bytes under a budget of 500,000, in units
\* of 100,000 bytes
ScenarioBytes == 12
ScenarioBudget == 5
\* files in the directory tree of SpecLive
LiveFiles == 2

\* ------------------------------------------------------------ characters
LF == "LF"
CR == "CR"
\* a byte sequence that decodes to nothing under errors='ignore'
BadByte == "xx"
\* "u2" stands for a character of two UTF-8 bytes
Alphabet == {"a", "u2", LF, CR}

\* len(c.encode('utf-8'))
Utf8Len(c) == IF c = "u2" THEN 2 ELSE 1

RECURSIVE ByteLen(_)
\* len(s.encode('utf-8'))
ByteLen(s) == IF s = <<>> THEN 0 ELSE Utf8Len(Head(s)) + ByteLen(Tail(s))

RECURSIVE SplitFrom(_, _, _)
SplitFrom(s, i, cur) ==
    IF i > Len(s) THEN (IF cur = <<>> THEN <<>> ELSE <<cur>>)
    ELSE IF s[i] = CR /\ i < Len(s) /\ s[i + 1] = LF
         THEN <<cur>> \o SplitFrom(s, i + 2, <<>>)
    ELSE IF s[i] \in {CR, LF}
         THEN <<cur>> \o SplitFrom(s, i + 1, <<>>)
    ELSE SplitFrom(s, i + 1, Append(cur, s[i]))

\* text.splitlines(): breaks at \n, \r and \r\n, no empty last line
splitlines(s) == SplitFrom(s, 1, <<>>)

RECURSIVE Join(_)
\* '\n'.join(parts)
Join(parts) ==
    IF parts = <<>> THEN <<>>
    ELSE IF Len(parts) = 1 THEN parts[1]
    ELSE parts[1] \o <<LF>> \o Join(Tail(parts))

\* ------------------------------------------------------------ chunk_text
\* mutant of NextChunk: the line that triggers a flush is lost
NextChunkDropLine(flush, current_chunk, line) ==
    IF flush THEN <<>> ELSE Append(current_chunk, line)

\* current_chunk after one iteration of the loop
NextChunk(flush, current_chunk, line) ==
    Append(IF flush THEN <<>> ELSE current_chunk, line)

\* the test that flushes the running buffer
FlushNow(current_size, line_size, chunk_size, current_chunk) ==
    current_size + line_size > chunk_size /\ current_chunk # <<>>

RECURSIVE ChunkLoop(_, _, _, _, _, _)
ChunkLoop(lines, i, chunks_, current_chunk, current_size, chunk_size) ==
    IF i > Len(lines)
    THEN (IF current_chunk # <<>> THEN Append(chunks_, Join(current_chunk)) ELSE chunks_)
    ELSE LET line == lines[i]
             line_size == ByteLen(line)
             flush == FlushNow(current_size, line_size, chunk_size, current_chunk)
         IN  ChunkLoop(lines, i + 1,
                       IF flush THEN Append(chunks_, Join(current_chunk)) ELSE chunks_,
                       NextChunk(flush, current_chunk, line),
                       (IF flush THEN 0 ELSE current_size) + line_size,
                       chunk_size)

chunk_text(t, chunk_size) == ChunkLoop(splitlines(t), 1, <<>>, <<>>, 0, chunk_size)

\* ------------------------------------------------------------------ state
VARIABLES
    \* the directory tree and the disk
    files,            \* path -> the file's units; unchanged during a behaviour
    progress_file,    \* indexing_progress.json
    \* indexing_status (IndexingStatus), process-wide
    is_indexing, files_indexed, total_files, current_file, current_size,
    total_size, start_time, progress_lock,
    \* the thread running index_in_background / index_directory
    pc,               \* position in index_in_background and index_directory
    result,           \* how index_directory ended: "none", "returned", "raised"
    indexed_files,    \* the in-memory ledger
    gpc,              \* position of the generator generate_documents
    fidx,             \* the file os.walk is at
    chunk_num,        \* the chunk the generator yields next
    batch, success, failed,
    bulk_response,    \* the last helpers.bulk call: none yet, the count it returned, or raised
    \* history
    run,              \* number of the process
    faults,           \* failures injected so far
    loaded,           \* the ledger this run loaded
    generated,        \* the documents this run's generator yielded, in order
    submitted,        \* the batches this run handed to helpers.bulk, in order
    handedPrev,       \* the documents earlier runs handed to helpers.bulk
    written,          \* the documents some helpers.bulk call reported written
    raised_at,        \* the last submission of this run that raised (0: none)
    errs,             \* this run met a per-file, ledger or load exception
    read_failed,      \* the files whose reading, hashing or chunking raised in this run
    persist_failed,   \* the files whose ledger write raised in this run
    slept,            \* time.sleep(0.1) ran since the last submission (or the start)
    uncounted,        \* the files whose getsize raised in the first walk of this run
    stat_failed,      \* the files whose getsize raised before the tracker was touched
    prev,             \* how the previous run ended
    \* chunk_text applied on its own (SpecChunk)
    text, budget, chunks, cpc,
    \* the threads of SpecConc
    tpc,              \* thread -> position in index_in_background / index_directory
    tfile,            \* thread -> the file its generator is at
    ttotals,          \* thread -> the totals of its first walk
    treg,             \* thread -> the value it loaded for a += on a tracker field
    qpc,              \* position of get_indexing_status
    resp              \* the fields of the response read so far

diskVars == <<files, progress_file>>
statusVars == <<is_indexing, files_indexed, total_files, current_file, current_size,
                total_size, start_time, progress_lock>>
runVars == <<pc, result, indexed_files, gpc, fidx, chunk_num, batch, success, failed,
             bulk_response>>
histVars == <<run, faults, loaded, generated, submitted, handedPrev, written,
              raised_at, errs, read_failed, persist_failed, slept, uncounted,
              stat_failed, prev>>
chunkVars == <<text, budget, chunks, cpc>>
threadVars == <<tpc, tfile, ttotals, treg>>
queryVars == <<qpc, resp>>
concVars == <<threadVars, queryVars>>
vars == <<diskVars, statusVars, runVars, histVars, chunkVars, concVars>>

\* the files of the directory tree, in os.walk's order
Paths == DOMAIN files

\* the last file of the walk
LastFile == Len(files)

\* what a file of the directory may hold: nothing, one line, two lines that do
\* not fit one chunk, bytes that decode to nothing
FileContents == { <<>>, <<"a">>, <<"a", "a", LF, "a", "a">>, <<BadByte>> }

\* os.path.getsize
getsize(f) == ByteLen(f)

\* open(..., encoding='utf-8', errors='ignore').read()
Decode(f) == SelectSeq(f, LAMBDA u : u # BadByte)

\* self.chunk_text(content) for each content a file may hold
ChunksOfContent == [f \in FileContents |-> chunk_text(Decode(f), ChunkSize)]

\* self.chunk_text(content) of the file at path p
FileChunks(p) == ChunksOfContent[files[p]]

\* a document: the path and chunk_number of _source
Doc(p, i) == <<p, i>>

Range(s) == { s[i] : i \in DOMAIN s }

\* the ledger file: absent, unparsable (empty or cut short), or a list of paths
Absent == [state |-> "absent", paths |-> {}]
Corrupt == [state |-> "corrupt", paths |-> {}]
Ledger(ps) == [state |-> "ok", paths |-> ps]

\* helpers.bulk(...)[0], or the exception it raised
NoResponse == [kind |-> "none", count |-> 0]
Response(k) == [kind |-> "response", count |-> k]
Raised == [kind |-> "raised", count |-> 0]

\* threading.Lock(): 0 when no thread holds it, else the holder (a thread of
\* Workers)
Unlocked == 0

\* IndexingStatus.__init__ ; current_file 0 is "", start_time "None" is None
StatusInit ==
    /\ is_indexing = FALSE
    /\ files_indexed = 0
    /\ total_files = 0
    /\ current_file = 0
    /\ current_size = 0
    /\ total_size = 0
    /\ start_time = "None"
    /\ progress_lock = Unlocked

\* the thread before index_in_background runs
RunInit ==
    /\ pc = "begin"
    /\ result = "none"
    /\ indexed_files = {}
    /\ gpc = "new"
    /\ fidx = 1
    /\ chunk_num = 0
    /\ batch = <<>>
    /\ success = 0
    /\ failed = 0
    /\ bulk_response = NoResponse

ChunkIdle ==
    /\ text = <<>>
    /\ budget = 0
    /\ chunks = <<>>
    /\ cpc = "off"

Workers == 1 .. MaxStarts

\* the response before any field is read
NoResp == [is_indexing |-> FALSE, files_indexed |-> 0, total_files |-> 0,
         current_file |-> 0, processed_size |-> <<0, "B">>,
          total_size |-> <<0, "B">>, started |-> FALSE, num |-> 0, den |-> 0,
          outcome |-> "none"]

\* no start_indexing call yet, no status request yet
ConcIdle ==
    /\ tpc = [w \in Workers |-> "unstarted"]
    /\ tfile = [w \in Workers |-> 1]
    /\ ttotals = [w \in Workers |-> <<0, 0>>]
    /\ treg = [w \in Workers |-> 0]
    /\ qpc = "idle"
    /\ resp = NoResp

Init ==
    /\ files \in [1 .. NumFiles -> FileContents]
    /\ progress_file = Absent
    /\ StatusInit
    /\ RunInit
    /\ run = 1
    /\ faults = 0
    /\ loaded = {}
    /\ generated = <<>>
    /\ submitted = <<>>
    /\ handedPrev = {}
    /\ written = {}
    /\ raised_at = 0
    /\ errs = FALSE
    /\ read_failed = {}
    /\ persist_failed = {}
    /\ slept = FALSE
    /\ uncounted = {}
    /\ stat_failed = {}
    /\ prev = [killed |-> FALSE, result |-> "none", errs |-> FALSE]
    /\ ChunkIdle
    /\ ConcIdle

\* --------------------------------------------------- index_in_background
\* with progress_lock: is_indexing = True
SetIndexing ==
    /\ pc = "begin"
    /\ progress_lock = Unlocked
    /\ is_indexing' = TRUE
    /\ pc' = "load"
    /\ UNCHANGED <<files_indexed, total_files, current_file, current_size, total_size,
                   start_time, progress_lock>>
    /\ UNCHANGED <<result, indexed_files, gpc, fidx, chunk_num, batch, success, failed,
                   bulk_response>>
    /\ UNCHANGED <<diskVars, histVars, chunkVars, concVars>>

\* mutant of ClearIndexing: the flag is cleared after a normal return only (no
\* finally)
ClearIndexingOnReturn ==
    /\ pc = "finally"
    /\ result = "returned"
    /\ progress_lock = Unlocked
    /\ is_indexing' = FALSE
    /\ pc' = "exited"
    /\ UNCHANGED <<files_indexed, total_files, current_file, current_size, total_size,
                   start_time, progress_lock>>
    /\ UNCHANGED <<result, indexed_files, gpc, fidx, chunk_num, batch, success, failed,
                   bulk_response>>
    /\ UNCHANGED <<diskVars, histVars, chunkVars, concVars>>

\* finally: with progress_lock: is_indexing = False
ClearIndexing ==
    /\ pc = "finally"
    /\ progress_lock = Unlocked
    /\ is_indexing' = FALSE
    /\ pc' = "exited"
    /\ UNCHANGED <<files_indexed, total_files, current_file, current_size, total_size,
                   start_time, progress_lock>>
    /\ UNCHANGED <<result, indexed_files, gpc, fidx, chunk_num, batch, success, failed,
                   bulk_response>>
    /\ UNCHANGED <<diskVars, histVars, chunkVars, concVars>>

\* ------------------------------------------------------- index_directory
\* mutant of LoadedSet: the ledger file is never read
LoadedSetEmpty(pf) == {}

\* set(json.load(f)) if os.path.exists(progress_file), else set()
LoadedSet(pf) == IF pf.state = "absent" THEN {} ELSE pf.paths

\* the ledger is loaded: no file gives the empty set
LoadProgress ==
    /\ pc = "load"
    /\ progress_file.state # "corrupt"
    /\ indexed_files' = LoadedSet(progress_file)
    /\ loaded' = progress_file.paths
    /\ pc' = "totals"
    /\ UNCHANGED <<result, gpc, fidx, chunk_num, batch, success, failed, bulk_response>>
    /\ UNCHANGED <<run, faults, generated, submitted, handedPrev, written, raised_at, errs,
                   prev, slept, uncounted, stat_failed, read_failed, persist_failed>>
    /\ UNCHANGED <<diskVars, statusVars, chunkVars, concVars>>

\* json.load raises on a file that holds no complete list: index_directory raises
LoadRaises ==
    /\ pc = "load"
    /\ progress_file.state = "corrupt"
    /\ pc' = "finally"
    /\ result' = "raised"
    /\ errs' = TRUE
    /\ UNCHANGED <<indexed_files, gpc, fidx, chunk_num, batch, success, failed,
                   bulk_response>>
    /\ UNCHANGED <<run, faults, loaded, generated, submitted, handedPrev,
                   written, raised_at, prev, slept, uncounted, stat_failed, read_failed,
                   persist_failed>>
    /\ UNCHANGED <<diskVars, statusVars, chunkVars, concVars>>

RECURSIVE SumSizes(_)
SumSizes(ps) ==
    IF ps = {} THEN 0
    ELSE LET p == CHOOSE q \in ps : TRUE IN getsize(files[p]) + SumSizes(ps \ {p})

\* the first walk: files whose getsize raises (bad) are not counted; then the
\* totals and start_time are stored and the generator is created
ComputeTotals ==
    /\ pc = "totals"
    /\ \E bad \in SUBSET Paths :
          /\ faults + Cardinality(bad) <= MaxFaults
          /\ faults' = faults + Cardinality(bad)
          /\ total_files' = Cardinality(Paths \ bad)
          /\ total_size' = SumSizes(Paths \ bad)
          /\ uncounted' = bad
    /\ start_time' = "set"
    /\ gpc' = "walk"
    /\ fidx' = 1
    /\ success' = 0
    /\ failed' = 0
    /\ batch' = <<>>
    /\ pc' = "fill"
    /\ UNCHANGED <<is_indexing, files_indexed, current_file, current_size, progress_lock>>
    /\ UNCHANGED <<result, indexed_files, chunk_num, bulk_response>>
    /\ UNCHANGED <<run, loaded, generated, submitted, handedPrev, written, raised_at, errs,
                   prev, slept, stat_failed, read_failed, persist_failed>>
    /\ UNCHANGED <<diskVars, chunkVars, concVars>>

\* ---------------------------------------------------- generate_documents
\* The generator runs only inside next(doc_generator), that is while the
\* submitter fills a batch (pc = "fill").
InGenerator == pc = "fill" /\ gpc = "walk" /\ fidx <= LastFile

\* filepath in indexed_files
AlreadyIndexedNever(p, ledger) == FALSE

AlreadyIndexed(p, ledger) == p \in ledger

\* mutant of TouchTracker: the tracker is left alone
TouchTrackerSkipped(p) == UNCHANGED statusVars

\* files_indexed += 1 ; current_size += file_size ; current_file = filepath
TouchTracker(p) ==
    /\ files_indexed' = files_indexed + 1
    /\ current_size' = current_size + getsize(files[p])
    /\ current_file' = p
    /\ UNCHANGED <<is_indexing, total_files, total_size, start_time, progress_lock>>

\* except Exception: print ; continue  -- the walk goes on with the next file
NextFile ==
    /\ fidx' = fidx + 1
    /\ gpc' = "walk"
    /\ UNCHANGED <<pc, result, batch, success, failed, bulk_response>>

\* os.path.getsize raises before the tracker is touched
StatFails ==
    /\ InGenerator
    /\ faults < MaxFaults
    /\ faults' = faults + 1
    /\ errs' = TRUE
    /\ stat_failed' = stat_failed \cup {fidx}
    /\ NextFile
    /\ UNCHANGED <<indexed_files, chunk_num>>
    /\ UNCHANGED <<run, loaded, generated, submitted, handedPrev, written, raised_at, prev,
                   slept, uncounted, read_failed, persist_failed>>
    /\ UNCHANGED <<diskVars, statusVars, chunkVars, concVars>>

\* mutant of SkipIndexed: a file of the ledger is passed over before the
\* tracker is touched
SkipIndexedUncounted ==
    /\ InGenerator
    /\ AlreadyIndexed(fidx, indexed_files)
    /\ NextFile
    /\ UNCHANGED <<indexed_files, chunk_num>>
    /\ UNCHANGED <<diskVars, statusVars, histVars, chunkVars, concVars>>

\* the file is in the ledger: counted as visited, no document
SkipIndexed ==
    /\ InGenerator
    /\ AlreadyIndexed(fidx, indexed_files)
    /\ TouchTracker(fidx)
    /\ NextFile
    /\ UNCHANGED <<indexed_files, chunk_num>>
    /\ UNCHANGED <<diskVars, histVars, chunkVars, concVars>>

\* the file is empty: counted as visited, no document
SkipEmpty ==
    /\ InGenerator
    /\ ~AlreadyIndexed(fidx, indexed_files)
    /\ getsize(files[fidx]) = 0
    /\ TouchTracker(fidx)
    /\ NextFile
    /\ UNCHANGED <<indexed_files, chunk_num>>
    /\ UNCHANGED <<diskVars, histVars, chunkVars, concVars>>

\* mutant of LedgerAfterError: the handler marks the file complete
LedgerAfterErrorMarked(ledger, p) == ledger \cup {p}

\* except Exception as e: print ; continue -- the handler leaves indexed_files
\* as it is
LedgerAfterError(ledger, p) == ledger

\* getsize, open, read, md5 or chunk_text raises after the tracker was touched
ReadFails ==
    /\ InGenerator
    /\ ~AlreadyIndexed(fidx, indexed_files)
    /\ faults < MaxFaults
    /\ faults' = faults + 1
    /\ errs' = TRUE
    /\ read_failed' = read_failed \cup {fidx}
    /\ TouchTracker(fidx)
    /\ NextFile
    /\ indexed_files' = LedgerAfterError(indexed_files, fidx)
    /\ UNCHANGED chunk_num
    /\ UNCHANGED <<run, loaded, generated, submitted, handedPrev, written, raised_at, prev,
                   slept, uncounted, stat_failed, persist_failed>>
    /\ UNCHANGED <<diskVars, chunkVars, concVars>>

\* the file is read and chunked; the generator stands before its first yield,
\* or before the ledger update when there is no chunk
ReadFile ==
    /\ InGenerator
    /\ ~AlreadyIndexed(fidx, indexed_files)
    /\ getsize(files[fidx]) # 0
    /\ TouchTracker(fidx)
    /\ chunk_num' = 0
    /\ gpc' = IF Len(FileChunks(fidx)) = 0 THEN "mark" ELSE "yield"
    /\ UNCHANGED <<pc, result, indexed_files, fidx, batch, success, failed,
                   bulk_response>>
    /\ UNCHANGED <<diskVars, histVars, chunkVars, concVars>>

\* mutant of BatchFull: the loop takes one document more
BatchFullLate(b) == Len(b) = BatchSize + 1

\* for _ in range(batch_size): the loop ends once batch_size documents are in
\* the batch
BatchFull(b) == Len(b) = BatchSize

\* yield: next() returns the document, the submitter appends it to the batch;
\* range(batch_size) ends when the batch is full
Yield ==
    /\ pc = "fill"
    /\ gpc = "yield"
    /\ batch' = Append(batch, Doc(fidx, chunk_num))
    /\ generated' = Append(generated, Doc(fidx, chunk_num))
    /\ chunk_num' = chunk_num + 1
    /\ gpc' = IF chunk_num + 1 < Len(FileChunks(fidx)) THEN "yield" ELSE "mark"
    /\ pc' = IF BatchFull(Append(batch, Doc(fidx, chunk_num))) THEN "sleep" ELSE "fill"
    /\ UNCHANGED <<result, indexed_files, fidx, success, failed, bulk_response>>
    /\ UNCHANGED <<run, faults, loaded, submitted, handedPrev, written, raised_at, errs,
                   prev, slept, uncounted, stat_failed, read_failed, persist_failed>>
    /\ UNCHANGED <<diskVars, statusVars, chunkVars, concVars>>

\* indexed_files.add(filepath) ; open(progress_file, 'w') leaves the file empty
OpenProgress ==
    /\ pc = "fill"
    /\ gpc = "mark"
    /\ indexed_files' = indexed_files \cup {fidx}
    /\ progress_file' = Corrupt
    /\ gpc' = "dump"
    /\ UNCHANGED <<pc, result, fidx, chunk_num, batch, success, failed, bulk_response>>
    /\ UNCHANGED <<files, statusVars, histVars, chunkVars, concVars>>

\* indexed_files.add(filepath) ; open(progress_file, 'w') raises
OpenFails ==
    /\ pc = "fill"
    /\ gpc = "mark"
    /\ faults < MaxFaults
    /\ faults' = faults + 1
    /\ errs' = TRUE
    /\ persist_failed' = persist_failed \cup {fidx}
    /\ indexed_files' = indexed_files \cup {fidx}
    /\ NextFile
    /\ UNCHANGED chunk_num
    /\ UNCHANGED <<run, loaded, generated, submitted, handedPrev, written, raised_at, prev,
                   slept, uncounted, stat_failed, read_failed>>
    /\ UNCHANGED <<diskVars, statusVars, chunkVars, concVars>>

\* json.dump(list(indexed_files), f) and the close of the file
DumpProgress ==
    /\ pc = "fill"
    /\ gpc = "dump"
    /\ progress_file' = Ledger(indexed_files)
    /\ NextFile
    /\ UNCHANGED <<indexed_files, chunk_num>>
    /\ UNCHANGED <<files, statusVars, histVars, chunkVars, concVars>>

\* json.dump or the close raises: the file stays empty or cut short
DumpFails ==
    /\ pc = "fill"
    /\ gpc = "dump"
    /\ faults < MaxFaults
    /\ faults' = faults + 1
    /\ errs' = TRUE
    /\ persist_failed' = persist_failed \cup {fidx}
    /\ NextFile
    /\ UNCHANGED <<indexed_files, chunk_num>>
    /\ UNCHANGED <<run, loaded, generated, submitted, handedPrev, written, raised_at, prev,
                   slept, uncounted, stat_failed, read_failed>>
    /\ UNCHANGED <<diskVars, statusVars, chunkVars, concVars>>

\* the walk is over: next() raises StopIteration; a batch that holds documents
\* goes to the final submission, an empty one ends the loop
StopIteration ==
    /\ pc = "fill"
    /\ gpc = "walk"
    /\ fidx > LastFile
    /\ gpc' = "stop"
    /\ pc' = IF batch # <<>> THEN "final" ELSE "finally"
    /\ result' = IF batch # <<>> THEN result ELSE "returned"
    /\ UNCHANGED <<indexed_files, fidx, chunk_num, batch, success, failed, bulk_response>>
    /\ UNCHANGED <<diskVars, statusVars, histVars, chunkVars, concVars>>

\* --------------------------------------------------------- the submitter
\* success += bulk_response[0] (the loop's batch)
BatchSuccess(s, n, k) == s + k

\* failed += len(batch) - bulk_response[0] (the loop's batch)
BatchFailed(f, n, k) == f + (n - k)

\* mutant of BatchAllFailed: a batch whose submission raised is not counted
BatchAllFailedSkip(f, n) == f

\* failed += len(batch) (the loop's batch, helpers.bulk raised)
BatchAllFailed(f, n) == f + n

\* success += bulk_response[0] (the final batch)
FinalSuccess(s, n, k) == s + k

\* mutant of FinalFailed: the final batch counted as failed whole
FinalFailedWhole(f, n, k) == f + n

\* failed += len(batch) - bulk_response[0] (the final batch)
FinalFailed(f, n, k) == f + (n - k)

\* mutant of FinalAllFailed: the exception of the final batch is not counted
FinalAllFailedSkip(f, n) == f

\* failed += len(batch) (the final batch, helpers.bulk raised)
FinalAllFailed(f, n) == f + n

\* time.sleep(0.1)
Sleep ==
    /\ pc = "sleep"
    /\ slept' = TRUE
    /\ pc' = "bulk"
    /\ UNCHANGED <<result, indexed_files, gpc, fidx, chunk_num, batch, success, failed,
                   bulk_response>>
    /\ UNCHANGED <<run, faults, loaded, generated, submitted, handedPrev, written,
                   raised_at, errs, read_failed, persist_failed, uncounted,
                   stat_failed, prev>>
    /\ UNCHANGED <<diskVars, statusVars, chunkVars, concVars>>

\* the documents a response of count k reports written: the code sees only the
\* count, and which documents failed is the index's choice, taken here as the
\* last len(batch) - k
Reported(b, k) == { b[i] : i \in 1 .. k }

\* helpers.bulk(self.es, batch, raise_on_error=False) returns: ok are the
\* documents it reports written; a response that reports documents failed is
\* one of the environment's failures
Handed(ok) ==
    /\ ok \subseteq Range(batch)
    /\ Cardinality(ok) < Len(batch) => faults < MaxFaults
    /\ faults' = IF Cardinality(ok) < Len(batch) THEN faults + 1 ELSE faults
    /\ submitted' = Append(submitted, batch)
    /\ written' = written \cup ok
    /\ bulk_response' = Response(Cardinality(ok))
    /\ batch' = <<>>
    /\ slept' = FALSE
    /\ UNCHANGED <<indexed_files, gpc, fidx, chunk_num>>
    /\ UNCHANGED <<run, loaded, generated, handedPrev, raised_at, errs, prev,
                   read_failed, persist_failed, uncounted, stat_failed>>
    /\ UNCHANGED <<diskVars, statusVars, chunkVars, concVars>>

\* helpers.bulk raises
HandedRaises ==
    /\ faults < MaxFaults
    /\ faults' = faults + 1
    /\ submitted' = Append(submitted, batch)
    /\ bulk_response' = Raised
    /\ raised_at' = Len(submitted) + 1
    /\ batch' = <<>>
    /\ slept' = FALSE
    /\ UNCHANGED <<indexed_files, gpc, fidx, chunk_num>>
    /\ UNCHANGED <<run, loaded, generated, handedPrev, written, errs, prev, read_failed,
                   persist_failed, uncounted, stat_failed>>
    /\ UNCHANGED <<diskVars, statusVars, chunkVars, concVars>>

\* a full batch is submitted; the loop starts the next batch
BulkResponds ==
    /\ pc = "bulk"
    /\ \E k \in 0 .. Len(batch) :
          /\ Handed(Reported(batch, k))
          /\ success' = BatchSuccess(success, Len(batch), k)
          /\ failed' = BatchFailed(failed, Len(batch), k)
    /\ pc' = "fill"
    /\ UNCHANGED result

\* the submission of a full batch raises: failed += len(batch) ; continue
BulkRaises ==
    /\ pc = "bulk"
    /\ HandedRaises
    /\ failed' = BatchAllFailed(failed, Len(batch))
    /\ pc' = "fill"
    /\ UNCHANGED <<result, success>>

\* the final, partial batch is submitted; break
FinalBulkResponds ==
    /\ pc = "final"
    /\ \E k \in 0 .. Len(batch) :
          /\ Handed(Reported(batch, k))
          /\ success' = FinalSuccess(success, Len(batch), k)
          /\ failed' = FinalFailed(failed, Len(batch), k)
    /\ pc' = "finally"
    /\ result' = "returned"

\* the submission of the final batch raises: failed += len(batch) ; break
FinalBulkRaises ==
    /\ pc = "final"
    /\ HandedRaises
    /\ failed' = FinalAllFailed(failed, Len(batch))
    /\ pc' = "finally"
    /\ result' = "returned"
    /\ UNCHANGED success

\* ------------------------------------------------------------ the process
\* a new process: indexing_status = IndexingStatus()
StatusReset ==
    /\ is_indexing' = FALSE
    /\ files_indexed' = 0
    /\ total_files' = 0
    /\ current_file' = 0
    /\ current_size' = 0
    /\ total_size' = 0
    /\ start_time' = "None"
    /\ progress_lock' = Unlocked

\* a new process: its thread before index_in_background runs
RunReset ==
    /\ pc' = "begin"
    /\ result' = "none"
    /\ indexed_files' = {}
    /\ gpc' = "new"
    /\ fidx' = 1
    /\ chunk_num' = 0
    /\ batch' = <<>>
    /\ success' = 0
    /\ failed' = 0
    /\ bulk_response' = NoResponse

RECURSIVE Flatten(_)
\* the documents of a sequence of batches, in order
Flatten(bs) == IF bs = <<>> THEN <<>> ELSE Head(bs) \o Flatten(Tail(bs))

\* The process is killed, at any point, or has ended; a new process is started
\* over the same directory and ledger file (__main__ calls start_indexing once).
Restart ==
    /\ run < MaxRuns
    /\ run' = run + 1
    /\ pc # "exited" => faults < MaxFaults
    /\ faults' = IF pc # "exited" THEN faults + 1 ELSE faults
    /\ prev' = [killed |-> pc # "exited", result |-> result, errs |-> errs]
    /\ slept' = FALSE
    /\ uncounted' = {}
    /\ stat_failed' = {}
    /\ read_failed' = {}
    /\ persist_failed' = {}
    /\ handedPrev' = handedPrev \cup Range(Flatten(submitted))
    /\ loaded' = {}
    /\ generated' = <<>>
    /\ submitted' = <<>>
    /\ errs' = FALSE
    /\ raised_at' = 0
    /\ StatusReset
    /\ RunReset
    /\ UNCHANGED written
    /\ UNCHANGED <<diskVars, chunkVars, concVars>>

Next ==
    \/ SetIndexing
    \/ LoadProgress
    \/ LoadRaises
    \/ ComputeTotals
    \/ StatFails
    \/ SkipIndexed
    \/ SkipEmpty
    \/ ReadFails
    \/ ReadFile
    \/ Yield
    \/ OpenProgress
    \/ OpenFails
    \/ DumpProgress
    \/ DumpFails
    \/ StopIteration
    \/ Sleep
    \/ BulkResponds
    \/ BulkRaises
    \/ FinalBulkResponds
    \/ FinalBulkRaises
    \/ ClearIndexing
    \/ Restart

Spec == Init /\ [][Next]_vars

\* ------------------------------------------------- chunk_text on its own
\* every text of at most MaxLen characters
Texts == UNION { [1 .. n -> Alphabet] : n \in 0 .. MaxLen }

RunIdle ==
    /\ progress_file = Absent
    /\ StatusInit
    /\ RunInit
    /\ run = 1
    /\ faults = 0
    /\ loaded = {}
    /\ generated = <<>>
    /\ submitted = <<>>
    /\ handedPrev = {}
    /\ written = {}
    /\ raised_at = 0
    /\ errs = FALSE
    /\ read_failed = {}
    /\ persist_failed = {}
    /\ slept = FALSE
    /\ uncounted = {}
    /\ stat_failed = {}
    /\ prev = [killed |-> FALSE, result |-> "none", errs |-> FALSE]

\* the files of the scenario: ScenarioBytes bytes, no line longer than the
\* budget
ScenarioTexts ==
    { t \in [1 .. ScenarioBytes -> {"a", LF}] :
        \A i \in DOMAIN splitlines(t) : ByteLen(splitlines(t)[i]) <= ScenarioBudget }

\* the calls of chunk_text: every bounded text under every budget, and the
\* scenario's files under the scenario's budget
ChunkCalls ==
    (Texts \X (1 .. MaxBudget)) \cup (ScenarioTexts \X {ScenarioBudget})

InitChunk ==
    /\ \E call \in ChunkCalls : text = call[1] /\ budget = call[2]
    /\ chunks = <<>>
    /\ cpc = "call"
    /\ files = <<>>
    /\ RunIdle
    /\ ConcIdle

\* chunks = chunk_text(text, budget)
CallChunkText ==
    /\ cpc = "call"
    /\ chunks' = chunk_text(text, budget)
    /\ cpc' = "done"
    /\ UNCHANGED <<text, budget>>
    /\ UNCHANGED <<diskVars, statusVars, runVars, histVars, concVars>>

NextChunkText == CallChunkText

SpecChunk == InitChunk /\ [][NextChunkText]_vars

\* ------------------------------------------- the threads and the status query
\* IndexingStatus.format_size: the number to two decimals (in hundredths) and
\* the unit; the division rounds to the nearest hundredth
RECURSIVE FormatFrom(_, _, _)
FormatFrom(hundredths, div, units) ==
    IF Len(units) = 1 \/ hundredths < 1024 * 100 * div
    THEN <<(2 * hundredths + div) \div (2 * div), Head(units)>>
    ELSE FormatFrom(hundredths, div * 1024, Tail(units))

format_size(size) == FormatFrom(size * 100, 1, <<"B", "KB", "MB", "GB", "TB">>)

\* what a file of the directory holds in SpecConc: nothing or one byte
ConcContents == { <<>>, <<"a">> }

InitConc ==
    /\ files \in [1 .. ConcFiles -> ConcContents]
    /\ RunIdle
    /\ ChunkIdle
    /\ ConcIdle

\* start_indexing: thread.start()
T_Start(w) ==
    /\ tpc[w] = "unstarted"
    /\ tpc' = [tpc EXCEPT ![w] = "lock_set"]
    /\ UNCHANGED <<tfile, ttotals, treg>>
    /\ UNCHANGED <<diskVars, statusVars, runVars, histVars, chunkVars, queryVars>>

\* with indexing_status.progress_lock: (entry)
T_Acquire(w) ==
    /\ tpc[w] \in {"lock_set", "lock_clear"}
    /\ progress_lock = Unlocked
    /\ progress_lock' = w
    /\ tpc' = [tpc EXCEPT ![w] = IF tpc[w] = "lock_set" THEN "set" ELSE "clear"]
    /\ UNCHANGED <<is_indexing, files_indexed, total_files, current_file, current_size,
                   total_size, start_time>>
    /\ UNCHANGED <<tfile, ttotals, treg>>
    /\ UNCHANGED <<diskVars, runVars, histVars, chunkVars, queryVars>>

\* indexing_status.is_indexing = True
T_SetIsIndexing(w) ==
    /\ tpc[w] = "set"
    /\ is_indexing' = TRUE
    /\ tpc' = [tpc EXCEPT ![w] = "unlock_set"]
    /\ UNCHANGED <<files_indexed, total_files, current_file, current_size, total_size,
                   start_time, progress_lock>>
    /\ UNCHANGED <<tfile, ttotals, treg>>
    /\ UNCHANGED <<diskVars, runVars, histVars, chunkVars, queryVars>>

\* indexing_status.is_indexing = False
T_ClearIsIndexing(w) ==
    /\ tpc[w] = "clear"
    /\ is_indexing' = FALSE
    /\ tpc' = [tpc EXCEPT ![w] = "unlock_clear"]
    /\ UNCHANGED <<files_indexed, total_files, current_file, current_size, total_size,
                   start_time, progress_lock>>
    /\ UNCHANGED <<tfile, ttotals, treg>>
    /\ UNCHANGED <<diskVars, runVars, histVars, chunkVars, queryVars>>

\* with indexing_status.progress_lock: (exit)
T_Release(w) ==
    /\ tpc[w] \in {"unlock_set", "unlock_clear"}
    /\ progress_lock' = Unlocked
    /\ tpc' = [tpc EXCEPT ![w] = IF tpc[w] = "unlock_set" THEN "walk" ELSE "ended"]
    /\ UNCHANGED <<is_indexing, files_indexed, total_files, current_file, current_size,
                   total_size, start_time>>
    /\ UNCHANGED <<tfile, ttotals, treg>>
    /\ UNCHANGED <<diskVars, runVars, histVars, chunkVars, queryVars>>

\* index_directory: the first walk computes the totals in locals; files whose
\* getsize raises (bad) are not counted
T_Walk(w) ==
    /\ tpc[w] = "walk"
    /\ \E bad \in SUBSET Paths :
          /\ faults + Cardinality(bad) <= MaxFaults
          /\ faults' = faults + Cardinality(bad)
          /\ uncounted' = uncounted \cup bad
          /\ ttotals' = [ttotals EXCEPT
                            ![w] = <<Cardinality(Paths \ bad), SumSizes(Paths \ bad)>>]
    /\ tpc' = [tpc EXCEPT ![w] = "total_files"]
    /\ UNCHANGED <<tfile, treg>>
    /\ UNCHANGED <<run, loaded, generated, submitted, handedPrev, written, raised_at, errs,
                   prev, slept, stat_failed, read_failed, persist_failed>>
    /\ UNCHANGED <<diskVars, statusVars, runVars, chunkVars, queryVars>>

\* indexing_status.total_files = total_files
T_StoreTotalFiles(w) ==
    /\ tpc[w] = "total_files"
    /\ total_files' = ttotals[w][1]
    /\ tpc' = [tpc EXCEPT ![w] = "total_size"]
    /\ UNCHANGED <<is_indexing, files_indexed, current_file, current_size, total_size,
                   start_time, progress_lock>>
    /\ UNCHANGED <<tfile, ttotals, treg>>
    /\ UNCHANGED <<diskVars, runVars, histVars, chunkVars, queryVars>>

\* indexing_status.total_size = total_size
T_StoreTotalSize(w) ==
    /\ tpc[w] = "total_size"
    /\ total_size' = ttotals[w][2]
    /\ tpc' = [tpc EXCEPT ![w] = "start_time"]
    /\ UNCHANGED <<is_indexing, files_indexed, total_files, current_file, current_size,
                   start_time, progress_lock>>
    /\ UNCHANGED <<tfile, ttotals, treg>>
    /\ UNCHANGED <<diskVars, runVars, histVars, chunkVars, queryVars>>

\* indexing_status.start_time = time.time() ; the generator starts its walk
T_StoreStartTime(w) ==
    /\ tpc[w] = "start_time"
    /\ start_time' = "set"
    /\ tpc' = [tpc EXCEPT ![w] = "visit"]
    /\ tfile' = [tfile EXCEPT ![w] = 1]
    /\ UNCHANGED <<is_indexing, files_indexed, total_files, current_file, current_size,
                   total_size, progress_lock>>
    /\ UNCHANGED <<ttotals, treg>>
    /\ UNCHANGED <<diskVars, runVars, histVars, chunkVars, queryVars>>

\* indexing_status.files_indexed += 1 : the load
T_LoadFilesIndexed(w) ==
    /\ tpc[w] = "visit"
    /\ tfile[w] <= LastFile
    /\ treg' = [treg EXCEPT ![w] = files_indexed]
    /\ tpc' = [tpc EXCEPT ![w] = "files_indexed"]
    /\ UNCHANGED <<tfile, ttotals>>
    /\ UNCHANGED <<diskVars, statusVars, runVars, histVars, chunkVars, queryVars>>

\* indexing_status.files_indexed += 1 : the store
T_StoreFilesIndexed(w) ==
    /\ tpc[w] = "files_indexed"
    /\ files_indexed' = treg[w] + 1
    /\ tpc' = [tpc EXCEPT ![w] = "ld_current_size"]
    /\ UNCHANGED <<is_indexing, total_files, current_file, current_size, total_size,
                   start_time, progress_lock>>
    /\ UNCHANGED <<tfile, ttotals, treg>>
    /\ UNCHANGED <<diskVars, runVars, histVars, chunkVars, queryVars>>

\* indexing_status.current_size += file_size : the load
T_LoadCurrentSize(w) ==
    /\ tpc[w] = "ld_current_size"
    /\ treg' = [treg EXCEPT ![w] = current_size]
    /\ tpc' = [tpc EXCEPT ![w] = "current_size"]
    /\ UNCHANGED <<tfile, ttotals>>
    /\ UNCHANGED <<diskVars, statusVars, runVars, histVars, chunkVars, queryVars>>

\* indexing_status.current_size += file_size : the store
T_StoreCurrentSize(w) ==
    /\ tpc[w] = "current_size"
    /\ current_size' = treg[w] + getsize(files[tfile[w]])
    /\ tpc' = [tpc EXCEPT ![w] = "current_file"]
    /\ UNCHANGED <<is_indexing, files_indexed, total_files, current_file, total_size,
                   start_time, progress_lock>>
    /\ UNCHANGED <<tfile, ttotals, treg>>
    /\ UNCHANGED <<diskVars, runVars, histVars, chunkVars, queryVars>>

\* indexing_status.current_file = filepath ; the rest of the file's handling
\* does not touch indexing_status
T_StoreCurrentFile(w) ==
    /\ tpc[w] = "current_file"
    /\ current_file' = tfile[w]
    /\ tfile' = [tfile EXCEPT ![w] = tfile[w] + 1]
    /\ tpc' = [tpc EXCEPT ![w] = "visit"]
    /\ treg' = [treg EXCEPT ![w] = 0]
    /\ UNCHANGED <<is_indexing, files_indexed, total_files, current_size, total_size,
                   start_time, progress_lock>>
    /\ UNCHANGED ttotals
    /\ UNCHANGED <<diskVars, runVars, histVars, chunkVars, queryVars>>

\* the walk is over and index_directory returns: finally
T_Return(w) ==
    /\ tpc[w] = "visit"
    /\ tfile[w] > LastFile
    /\ tpc' = [tpc EXCEPT ![w] = "lock_clear"]
    /\ UNCHANGED <<tfile, ttotals, treg>>
    /\ UNCHANGED <<diskVars, statusVars, runVars, histVars, chunkVars, queryVars>>

\* one read of get_indexing_status: field f of the response, then position q
QueryRead(at, f, v, q) ==
    /\ qpc = at
    /\ resp' = [resp EXCEPT ![f] = v]
    /\ qpc' = q
    /\ UNCHANGED <<diskVars, statusVars, runVars, histVars, chunkVars, threadVars>>

\* 'is_indexing': indexing_status.is_indexing
Q_IsIndexing == QueryRead("idle", "is_indexing", is_indexing, "files_indexed")

\* 'files_indexed': indexing_status.files_indexed
Q_FilesIndexed == QueryRead("files_indexed", "files_indexed", files_indexed, "total_files")

\* 'total_files': indexing_status.total_files
Q_TotalFiles == QueryRead("total_files", "total_files", total_files, "current_file")

\* 'current_file': indexing_status.current_file
Q_CurrentFile == QueryRead("current_file", "current_file", current_file, "processed_size")

\* 'processed_size': format_size(indexing_status.current_size)
Q_ProcessedSize ==
    QueryRead("processed_size", "processed_size", format_size(current_size), "total_size")

\* 'total_size': format_size(indexing_status.total_size)
Q_TotalSize == QueryRead("total_size", "total_size", format_size(total_size), "elapsed_time")

\* 'elapsed_time': get_elapsed_time(), "0s" if not start_time
Q_ElapsedTime == QueryRead("elapsed_time", "started", start_time # "None", "test")

\* ... if indexing_status.total_size > 0 else 0
Q_TestTotalSize ==
    IF total_size > 0
    THEN QueryRead("test", "outcome", "dividing", "numerator")
    ELSE QueryRead("test", "outcome", "zero", "done")

\* indexing_status.current_size / ...
Q_Numerator == QueryRead("numerator", "num", current_size, "denominator")

\* ... / indexing_status.total_size * 100 : raises ZeroDivisionError on 0
Q_Denominator ==
    /\ qpc = "denominator"
    /\ resp' = [resp EXCEPT !.den = total_size,
                            !.outcome = IF total_size = 0 THEN "ZeroDivisionError"
                                        ELSE "percent"]
    /\ qpc' = "done"
    /\ UNCHANGED <<diskVars, statusVars, runVars, histVars, chunkVars, threadVars>>

NextConc ==
    \/ \E w \in Workers :
          \/ T_Start(w)
          \/ T_Acquire(w)
          \/ T_SetIsIndexing(w)
          \/ T_ClearIsIndexing(w)
          \/ T_Release(w)
          \/ T_Walk(w)
          \/ T_StoreTotalFiles(w)
          \/ T_StoreTotalSize(w)
          \/ T_StoreStartTime(w)
          \/ T_LoadFilesIndexed(w)
          \/ T_StoreFilesIndexed(w)
          \/ T_LoadCurrentSize(w)
          \/ T_StoreCurrentSize(w)
          \/ T_StoreCurrentFile(w)
          \/ T_Return(w)
    \/ Q_IsIndexing
    \/ Q_FilesIndexed
    \/ Q_TotalFiles
    \/ Q_CurrentFile
    \/ Q_ProcessedSize
    \/ Q_TotalSize
    \/ Q_ElapsedTime
    \/ Q_TestTotalSize
    \/ Q_Numerator
    \/ Q_Denominator

SpecConc == InitConc /\ [][NextConc]_vars

\* ------------------------------------------------- one run, to its end
\* One process and one start_indexing call (as __main__ makes it), over a
\* ledger file as an earlier process may have left it: none, one cut short by a
\* kill, or the list with the first file.
InitLive ==
    /\ files \in [1 .. LiveFiles -> FileContents]
    /\ progress_file \in {Absent, Corrupt, Ledger({1})}
    /\ StatusInit
    /\ RunInit
    /\ run = 1
    /\ faults = 0
    /\ loaded = {}
    /\ generated = <<>>
    /\ submitted = <<>>
    /\ handedPrev = {}
    /\ written = {}
    /\ raised_at = 0
    /\ errs = FALSE
    /\ read_failed = {}
    /\ persist_failed = {}
    /\ slept = FALSE
    /\ uncounted = {}
    /\ stat_failed = {}
    /\ prev = [killed |-> FALSE, result |-> "none", errs |-> FALSE]
    /\ ChunkIdle
    /\ ConcIdle

\* the steps of the background thread
NextLive ==
    \/ SetIndexing
    \/ LoadProgress
    \/ LoadRaises
    \/ ComputeTotals
    \/ StatFails
    \/ SkipIndexed
    \/ SkipEmpty
    \/ ReadFails
    \/ ReadFile
    \/ Yield
    \/ OpenProgress
    \/ OpenFails
    \/ DumpProgress
    \/ DumpFails
    \/ StopIteration
    \/ Sleep
    \/ BulkResponds
    \/ BulkRaises
    \/ FinalBulkResponds
    \/ FinalBulkRaises
    \/ ClearIndexing

\* The thread is scheduled as long as it has a step to take: time.sleep ends, a
\* file operation and helpers.bulk return or raise, and no other thread holds
\* progress_lock.
SpecLive == InitLive /\ [][NextLive]_vars /\ WF_vars(NextLive)

\* ================================================================ claims
\* the documents handed to helpers.bulk so far, over all runs
HandedEver == handedPrev \cup Range(Flatten(submitted))

\* the documents of the file at path p
DocsOf(p) == { Doc(p, i - 1) : i \in 1 .. Len(FileChunks(p)) }

\* the paths the ledger holds, in memory or on disk
InLedger == indexed_files \cup progress_file.paths

\* C1: every file path in the progress ledger (the in-memory set or the
\* persisted record) has had all of its chunk documents reported written by a
\* bulk submission at least once.
C1_LedgerMeansWritten == \A p \in InLedger : DocsOf(p) \subseteq written

\* C2: crash-resume loses nothing: when a run that follows a killed run ends
\* without errors, every chunk document of every non-empty file has been handed
\* to a bulk submission at least once across the runs.
C2_ResumeLosesNothing ==
    (run >= 2 /\ prev.killed /\ pc = "exited" /\ result = "returned" /\ ~errs)
        => \A p \in Paths : getsize(files[p]) > 0 => DocsOf(p) \subseteq HandedEver

\* C3: a run generates documents only for files that are not in the ledger it
\* loaded; the files of the loaded ledger produce no document.
C3_OnlyUnledgered == \A i \in DOMAIN generated : generated[i][1] \notin loaded

\* C3 witness: the ledger {1, 2} was loaded, the directory also holds 3, and the
\* finished run generated documents, all of them of file 3
C3_Witness ==
    /\ pc = "exited"
    /\ loaded = {1, 2}
    /\ generated # <<>>
    /\ \A i \in DOMAIN generated : generated[i][1] = 3

SubmitStep == run' = run /\ pc \in {"bulk", "final"} /\ pc' # pc

\* where the submitter goes on after a submission: the next batch, or the end
AfterSubmit == pc' = (IF pc = "bulk" THEN "fill" ELSE "finally") /\ result' # "raised"

\* C8: after a bulk submission of n documents of which k are reported written,
\* success has grown by k and failed by n - k, and processing goes on without
\* raising, for full batches and for the final batch.
C8_CountsAfterResponse ==
    [][ (SubmitStep /\ bulk_response'.kind = "response")
          => /\ success' = success + bulk_response'.count
             /\ failed' = failed + (Len(batch) - bulk_response'.count)
             /\ AfterSubmit ]_vars

\* C8 witness: a full batch and then the final partial batch were submitted,
\* with documents written and documents failed
C8_Witness ==
    /\ pc = "finally"
    /\ Len(submitted) = 2
    /\ Len(submitted[1]) = BatchSize
    /\ Len(submitted[2]) < BatchSize
    /\ raised_at = 0
    /\ success > 0 /\ failed > 0
    /\ success + failed = Len(generated)

\* C9: when a bulk submission raises, failed grows by the batch size, success
\* is unchanged and the run goes on: it ends by returning, with every file
\* visited and every generated document handed to a submission.
C9_RaiseIsNotFatal ==
    /\ [][ (SubmitStep /\ bulk_response'.kind = "raised")
             => /\ failed' = failed + Len(batch)
                /\ success' = success
                /\ AfterSubmit ]_vars
    /\ [](pc = "exited" /\ raised_at > 0
             => /\ result = "returned"
                /\ fidx = LastFile + 1
                /\ Range(generated) \subseteq Range(Flatten(submitted)))

\* C9 witness: the first submission raised and the run went on to submit a
\* later batch and ended
C9_Witness ==
    /\ pc = "exited"
    /\ raised_at = 1
    /\ Len(submitted) >= 2
    /\ failed >= BatchSize

PlainLines(t) ==
    /\ \A i \in DOMAIN t : t[i] # CR
    /\ t = <<>> \/ t[Len(t)] # LF

OneLongLine(c, b) == (\A i \in DOMAIN c : c[i] # LF) /\ ByteLen(c) > b

\* C6: every chunk has an encoded size (lines and joining newlines) of at
\* most the budget, except a chunk of exactly one line longer than the budget.
C6_ChunkWithinBudget ==
    cpc = "done" =>
        \A i \in DOMAIN chunks :
            ByteLen(chunks[i]) <= budget \/ OneLongLine(chunks[i], budget)

\* C7: no chunk for the empty input, and for a non-empty input every chunk is
\* a non-empty string.
C7_ChunksNonEmpty ==
    cpc = "done" =>
        /\ text = <<>> => chunks = <<>>
        /\ text # <<>> => \A i \in DOMAIN chunks : chunks[i] # <<>>

\* the fields of the shared progress record
TrackerFields == <<is_indexing, files_indexed, total_files, current_file, current_size,
                   total_size, start_time>>

\* the positions from which a thread's next step stores to a tracker field
StorePcs == {"set", "clear", "total_files", "total_size", "start_time", "files_indexed",
             "current_size", "current_file"}

\* the step is thread w's and it loads or stores a tracker field
AccessBy(w) ==
    /\ tpc'[w] # tpc[w]
    /\ \/ tpc[w] \in StorePcs
       \/ tpc'[w] \in {"files_indexed", "current_size"}

\* the thread that serves the status request; it never takes progress_lock
StatusThread == MaxStarts + 1

\* C10: every read and every write of the shared progress record is performed
\* while the accessing thread holds progress_lock: the indexing thread writes
\* no tracker field, and the status query reads none, without holding the lock.
C10_AccessUnderLock ==
    [][ /\ \A w \in Workers : AccessBy(w) => progress_lock = w
        /\ qpc' # qpc => progress_lock = StatusThread ]_vars

\* the positions of a thread inside engine.index_directory(data_dir)
InIndexDirectory == {"walk", "total_files", "total_size", "start_time", "visit",
                     "files_indexed", "ld_current_size", "current_size", "current_file"}

\* C11: at most one background thread executes index_directory at any instant,
\* after any sequence of start_indexing calls.
C11_OneRunAtATime == Cardinality({ w \in Workers : tpc[w] \in InIndexDirectory }) <= 1

\* C12: a started run eventually leaves Running: whether index_directory
\* returns or raises, the thread ends, and from then on is_indexing is false in
\* the process, which keeps serving.
C12_LeavesRunning ==
    /\ <>[](pc = "exited" /\ ~is_indexing)
    /\ [](pc = "exited" => ~is_indexing /\ result \in {"returned", "raised"})

\* C12 witness: index_directory raised (the ledger file could not be parsed) and
\* the thread ended with the flag cleared
C12_Witness == pc = "exited" /\ result = "raised" /\ ~is_indexing /\ total_files = 0

\* C13: the percent-complete computation of the status query never raises a
\* division error, however the query's reads interleave with the stores of the
\* indexing runs.
C13_PercentNeverRaises == resp.outcome # "ZeroDivisionError"

\* C14: a file whose ledger write raised stays incomplete: it is in no ledger
\* record persisted later in the same run.
C14_FailedPersistStaysOut == \A p \in persist_failed : p \notin progress_file.paths

\* C15: the persisted ledger record is never empty or partial, also when the
\* process is killed in the middle of persisting: every load finds a complete
\* record and index_directory never raises on it.
C15_LoadAlwaysSucceeds ==
    /\ pc = "load" => progress_file.state # "corrupt"
    /\ result # "raised"

\* the files this run's generator yielded documents of
YieldedFiles == { generated[i][1] : i \in DOMAIN generated }

\* C16: a file whose reading, fingerprinting or chunking raised has no document
\* yielded in this run and is not in the ledger, in memory or persisted, up to
\* the end of the run, and the generator is past it; and a run that ends
\* without an exception has yielded every document of every file that was not
\* in the ledger it loaded (so the next run processes the file again).
C16_ReadErrorLeavesFileOut ==
    /\ \A p \in read_failed :
          /\ p \notin YieldedFiles
          /\ p \notin InLedger
          /\ fidx > p
    /\ (pc = "exited" /\ result = "returned" /\ ~errs)
          => \A p \in Paths \ loaded : DocsOf(p) \subseteq Range(generated)

\* C16 witness: the read of a file that has documents raised, and the run went
\* on to yield the documents of a later file, to ledger it, and to its end
C16_Witness ==
    /\ pc = "exited" /\ result = "returned"
    /\ \E p \in read_failed :
          /\ DocsOf(p) # {}
          /\ \E q \in YieldedFiles : q > p /\ q \in progress_file.paths

RECURSIVE SumBytes(_)
\* the sum of the chunks' byte sizes
SumBytes(chs) == IF chs = <<>> THEN 0 ELSE ByteLen(Head(chs)) + SumBytes(Tail(chs))

\* C17: a file of ScenarioBytes bytes with no line longer than ScenarioBudget
\* gives, under that budget, exactly 3 chunks whose byte sizes sum to
\* ScenarioBytes (the scenario of 1,200,000 bytes under 500,000, in units of
\* 100,000 bytes), whatever its line structure.
C17_ThreeChunksSumToSize ==
    (cpc = "done" /\ text \in ScenarioTexts /\ budget = ScenarioBudget)
        => Len(chunks) = 3 /\ SumBytes(chunks) = ScenarioBytes

\* the files with documents yielded or about to be
Yielding == YieldedFiles \cup (IF gpc = "yield" THEN {fidx} ELSE {})

\* file p is in the in-memory ledger and its ledger write was made or raised
\* (a later write may be under way or cut short)
LedgerUpdated(p) ==
    /\ p \in indexed_files
    /\ \/ p \in progress_file.paths
       \/ p \in persist_failed
       \/ progress_file.state = "corrupt"

\* C18: the tracker is updated for a file before the file's first document is
\* yielded; the file is added to the ledger after its last document is yielded;
\* and before a document of a later file is yielded the earlier file is in the
\* in-memory ledger and its ledger write has been made (or has raised).
C18_TrackerThenDocsThenLedger ==
    LET ys == Yielding IN
    /\ gpc \in {"yield", "mark", "dump"}
          => /\ current_file = fidx
             /\ current_size >= getsize(files[fidx])
    /\ files_indexed >= Cardinality(ys)
    /\ gpc \in {"mark", "dump"} => DocsOf(fidx) \subseteq Range(generated)
    /\ \A p \in indexed_files \ loaded : p < fidx \/ (p = fidx /\ gpc = "dump")
    /\ gpc = "yield" => fidx \notin InLedger
    /\ \A p \in ys :
          /\ current_file >= p
          /\ (p = fidx /\ gpc \in {"yield", "mark"}) \/ LedgerUpdated(p)

\* C18 witness: the generator is between the two documents of the second file
\* that yields documents, and the first such file is in the persisted ledger
C18_Witness ==
    /\ pc = "fill" /\ gpc = "yield" /\ chunk_num = 1
    /\ \E p \in YieldedFiles : p < fidx /\ p \in progress_file.paths
    /\ fidx \in YieldedFiles
    /\ files_indexed = fidx

\* document d comes before document e in the walk: an earlier file, or an
\* earlier chunk of the same file
Before(d, e) == d[1] < e[1] \/ (d[1] = e[1] /\ d[2] < e[2])

\* C19: the documents handed to helpers.bulk, batch after batch, followed by
\* the batch being filled, are the generated documents in generation order,
\* each once (the generated documents are pairwise distinct); no submitted
\* batch is empty or longer than batch_size, and only the last batch of a run
\* may be shorter than batch_size.
C19_BatchesInOrder ==
    /\ Flatten(submitted) \o batch = generated
    /\ \A i \in 1 .. Len(generated) - 1 : Before(generated[i], generated[i + 1])
    /\ pc \in {"finally", "exited"} => batch = <<>>
    /\ \A i \in DOMAIN submitted :
          /\ Len(submitted[i]) \in 1 .. BatchSize
          /\ Len(submitted[i]) < BatchSize
                => i = Len(submitted) /\ pc \in {"finally", "exited"}

\* C19 witness: the run ended with a number of documents that is a multiple of
\* batch_size, all of them in full batches
C19_Witness ==
    /\ pc = "exited"
    /\ Len(generated) = 2 * BatchSize
    /\ Len(submitted) = 2
    /\ Flatten(submitted) = generated

\* C20: when index_directory returns, success + failed is the number of
\* documents the generator yielded in the run.
C20_CountsAddUp ==
    (pc \in {"finally", "exited"} /\ result = "returned")
        => success + failed = Len(generated)

\* C20 witness: the run returned after a full batch whose submission raised and
\* a final batch that was reported written
C20_Witness ==
    /\ pc = "exited" /\ result = "returned"
    /\ raised_at = 1
    /\ Len(submitted) = 2
    /\ failed = BatchSize
    /\ success = Len(generated) - BatchSize
    /\ success > 0

\* C22: in every state, a second start_indexing call in the process included,
\* files_indexed <= total_files and current_size <= total_size, so the percent
\* reported never exceeds 100. Stated here over the behaviours in which every
\* getsize of the first walk succeeded, so that the totals are those of the
\* whole directory.
C22_NeverOverTotal ==
    faults = 0 => /\ files_indexed <= total_files
                  /\ current_size <= total_size

\* C23: is_indexing is true in every state in which some thread is executing
\* index_directory.
C23_IndexingWhileRunning ==
    (\E w \in Workers : tpc[w] \in InIndexDirectory) => is_indexing

\* C25: between any two consecutive submissions to helpers.bulk of a run, the
\* last full batch and the final partial batch included, time.sleep(0.1) is
\* executed: a step that hands a batch over after an earlier submission of the
\* run starts in a state in which the delay ran since that submission.
C25_DelayBetweenSubmissions ==
    [][(Len(submitted') = Len(submitted) + 1 /\ Len(submitted) >= 1) => slept]_vars

\* round(n / d, 0) for integers n >= 0, d > 0: Python rounds a half to even
RoundHalfEven(n, d) ==
    LET q == n \div d
        r == n % d
    IN  IF 2 * r < d THEN q
        ELSE IF 2 * r > d THEN q + 1
        ELSE IF q % 2 = 0 THEN q ELSE q + 1

\* round((current_size / total_size * 100) if total_size > 0 else 0, 2), in
\* hundredths of a percent
percent_complete(cs, ts) == IF ts > 0 THEN RoundHalfEven(cs * 10000, ts) ELSE 0

\* the percent_complete of the response, from the two reads of its division
ReportedPercent ==
    IF resp.outcome = "percent" THEN percent_complete(resp.num, resp.den) ELSE 0

\* the bytes of the first p files of the walk
SizeUpTo(p) == SumSizes(1 .. p)

\* The values (files_indexed, current_size, current_file, total_size) of the
\* tracker at the instants of one run of index_directory in a new process:
\* zeros before and after the totals are stored, then for the p-th file of the
\* walk the three stores of lines 183-185 in their order.
TrackerInstants ==
    LET totals == {0} \cup { ttotals[w][2] : w \in Workers }
        stored == IF totals = {0} THEN {0} ELSE totals \ {0}
        Instant(fi, cs, cf, ts) ==
            [files_indexed |-> fi, current_size |-> cs, current_file |-> cf,
             total_size |-> ts]
    IN  { Instant(0, 0, 0, ts) : ts \in totals }
        \cup UNION { { Instant(p, SizeUpTo(p - 1), p - 1, ts),
                       Instant(p, SizeUpTo(p), p - 1, ts),
                       Instant(p, SizeUpTo(p), p, ts) } :
                     p \in Paths, ts \in stored }

\* start_indexing was called at most once
OneIndexingThread == Cardinality({ w \in Workers : tpc[w] # "unstarted" }) <= 1

\* with one indexing thread the tracker is at one of TrackerInstants in every
\* state
TrackerAtAnInstant ==
    OneIndexingThread =>
        [files_indexed |-> files_indexed, current_size |-> current_size,
         current_file |-> current_file, total_size |-> total_size] \in TrackerInstants

\* C24: every response of the status query is a consistent snapshot: what it
\* reports for files_indexed, current_file, processed size, total size and
\* percent complete are the tracker's values at one single instant of the run,
\* under every interleaving with the indexing thread. Stated for one indexing
\* thread whose first walk met no getsize failure.
C24_ConsistentSnapshot ==
    (qpc = "done" /\ resp.outcome # "ZeroDivisionError" /\ OneIndexingThread
        /\ faults = 0)
        => \E s \in TrackerInstants :
              /\ resp.files_indexed = s.files_indexed
              /\ resp.current_file = s.current_file
              /\ resp.processed_size = format_size(s.current_size)
              /\ resp.total_size = format_size(s.total_size)
              /\ ReportedPercent = percent_complete(s.current_size, s.total_size)

\* the run finished: index_directory returned
RunFinished == pc \in {"finally", "exited"} /\ result = "returned"

\* the directory did not change during the run: getsize raised in the second
\* walk for exactly the files for which it raised in the first
DirectoryUnchanged == uncounted = stat_failed

\* C21 as stated: when the first run in a process finishes over a directory
\* that does not change during the run, files_indexed equals total_files,
\* current_size equals total_size and the percent complete is 100, whatever
\* was skipped as ledgered or empty or failed after being visited.
C21_AllVisitedPercent100 ==
    (RunFinished /\ DirectoryUnchanged)
        => /\ files_indexed = total_files
           /\ current_size = total_size
           /\ percent_complete(current_size, total_size) = 10000

\* C21, amended: files_indexed equals total_files and current_size equals
\* total_size; the percent complete is 100 when the directory holds at least
\* one byte and 0 when total_size is 0.
C21_AllVisited ==
    (RunFinished /\ DirectoryUnchanged)
        => /\ files_indexed = total_files
           /\ current_size = total_size
           /\ percent_complete(current_size, total_size)
                 = IF total_size > 0 THEN 10000 ELSE 0

\* C21 witness: the run returned over a directory that holds bytes, with one
\* file skipped as ledgered and one that failed after it was visited
C21_Witness ==
    /\ pc = "exited" /\ result = "returned"
    /\ DirectoryUnchanged
    /\ total_size > 0
    /\ \E p \in loaded : p \in Paths
    /\ read_failed # {}
    /\ files_indexed = LastFile

====
